---- MODULE Spec2Model ----
(***************************************************************************)
(* The cart store of src/src/context/CartContext.tsx (CartProvider): the   *)
(* React state cartItems / hasMounted, the queue of state updates React    *)
(* applies at the next render, the two effects (hydration from             *)
(* localStorage at mount, save to localStorage after every change) and the *)
(* four mutation operations.                                               *)
(*                                                                         *)
(* React semantics modelled: setState calls made by a handler or an effect *)
(* are queued (nextItems / nextMounted hold the state with the queue       *)
(* applied in order); a render commits them (cartItems / hasMounted are    *)
(* what the consumers see, together with cartTotal and itemCount computed  *)
(* by that render); passive effects run after the render that scheduled    *)
(* them, in declaration order, and before the next render.                 *)
(***************************************************************************)
EXTENDS Integers, Sequences, FiniteSets, TLC

VARIABLES
    cartItems,     \* useState cartItems as committed by the last render
    hasMounted,    \* useState hasMounted as committed by the last render
    nextItems,     \* cartItems with the queued setCartItems updates applied
    nextMounted,   \* hasMounted with the queued setHasMounted update applied
    pending,       \* number of setCartItems updates queued since the last render
    mountPending,  \* the mount (hydration) effect has not run yet
    savePending,   \* the save effect is scheduled and has not run yet
    storage,       \* localStorage entry 'cartItems': [present, text]
    cartTotal,     \* cartTotal computed by the last render
    itemCount,     \* itemCount computed by the last render
    lastOp,        \* history: the last step taken, [op, arg, q]
    adds,          \* history: per product id, the addToCart calls that built its line
    tab2           \* a second tab on the same localStorage: [items, mounted, dirty]

vars == <<cartItems, hasMounted, nextItems, nextMounted, pending, mountPending,
          savePending, storage, cartTotal, itemCount, lastOp, adds, tab2>>

(***************************************************************************)
(* Bounds of the model.                                                    *)
(***************************************************************************)
\* largest quantity a line item is allowed to reach
MaxQty == 2
\* largest quantity argument of addToCart / updateQuantity
MaxDelta == 2
\* the smallest quantity argument is -MaxDec
MaxDec == 1
\* setCartItems updates that handlers queue before React renders
MaxPending == 1
\* addToCart calls per product in the specification SpecAdds
MaxAdds == 3
\* largest quantity argument of addToCart in SpecAdds
MaxAddDelta == 3
\* largest quantity a line item is allowed to reach in SpecAdds
MaxSum == 5
\* largest quantity a line item of the second tab is allowed to reach
MaxTabQty == 1

Quantities == (0 - MaxDec)..MaxDelta

AddQuantities == (0 - MaxDec)..MaxAddDelta

\* Product records handed to addToCart (id and price of lib/types Product).
Products == { [id |-> "p1", price |-> 10], [id |-> "p2", price |-> 5] }

ProductIds == { p.id : p \in Products }

Max(a, b) == IF a >= b THEN a ELSE b

(***************************************************************************)
(* JSON text, as a sequence of tokens.  JSON.stringify writes an array of  *)
(* objects; JSON.parse reads any text and either throws or returns a       *)
(* value, of which the code only asks whether it is an array.              *)
(***************************************************************************)
Tok(k) == [k |-> k, s |-> "", n |-> 0]
StrTok(k, s) == [k |-> k, s |-> s, n |-> 0]
NumTok(k, n) == [k |-> k, s |-> "", n |-> n]

LBrack == Tok("[")
RBrack == Tok("]")
LBrace == Tok("{")
RBrace == Tok("}")
NullTok == Tok("null")
JunkTok == Tok("not json")

\* mutant: the quantity is left out of the text of a line
StringifyItemWithoutQuantity(item) ==
    << LBrace, StrTok("id", item.id), NumTok("price", item.price), RBrace >>

StringifyItem(item) ==
    << LBrace, StrTok("id", item.id), NumTok("price", item.price),
       NumTok("quantity", item.quantity), RBrace >>

RECURSIVE StringifyItems(_)
StringifyItems(items) ==
    IF items = <<>> THEN <<>>
    ELSE StringifyItem(Head(items)) \o StringifyItems(Tail(items))

\* JSON.stringify(cartItems)
Stringify(items) == <<LBrack>> \o StringifyItems(items) \o <<RBrack>>

\* an object {"id":..,"price":..,"quantity":..} starts at token i
IsItemAt(text, i) ==
    /\ i + 4 <= Len(text)
    /\ text[i] = LBrace
    /\ text[i + 1].k = "id"
    /\ text[i + 2].k = "price"
    /\ text[i + 3].k = "quantity"
    /\ text[i + 4] = RBrace

ItemAt(text, i) ==
    [id |-> text[i + 1].s, price |-> text[i + 2].n, quantity |-> text[i + 3].n]

ParseFailure == [ok |-> FALSE, isArray |-> FALSE, items |-> <<>>]

\* the elements of an array, read from token i on; acc holds those read so far
RECURSIVE ParseElements(_, _, _)
ParseElements(text, i, acc) ==
    IF i > Len(text) THEN ParseFailure
    ELSE IF text[i] = RBrack
         THEN IF i = Len(text)
              THEN [ok |-> TRUE, isArray |-> TRUE, items |-> acc]
              ELSE ParseFailure
         ELSE IF IsItemAt(text, i)
              THEN ParseElements(text, i + 5, Append(acc, ItemAt(text, i)))
              ELSE ParseFailure

\* JSON.parse(text): ok = it did not throw, isArray = Array.isArray(result)
JSONParse(text) ==
    IF text = <<>> THEN ParseFailure
    ELSE IF text[1] = LBrack THEN ParseElements(text, 2, <<>>)
    ELSE IF text = <<NullTok>> THEN [ok |-> TRUE, isArray |-> FALSE, items |-> <<>>]
    ELSE IF text = <<LBrace, RBrace>> \/ (IsItemAt(text, 1) /\ Len(text) = 5)
         THEN [ok |-> TRUE, isArray |-> FALSE, items |-> <<>>]
    ELSE ParseFailure

\* localStorage entries
NoEntry == [present |-> FALSE, text |-> <<>>]
Entry(text) == [present |-> TRUE, text |-> text]

\* carts a previous session of the program may have left in storage
StoredCarts ==
    { <<>>,
      << [id |-> "p1", price |-> 10, quantity |-> 0] >>,
      << [id |-> "p2", price |-> 5, quantity |-> 1],
         [id |-> "p1", price |-> 10, quantity |-> 2] >> }

\* what localStorage holds under 'cartItems' when the application starts
InitStorage ==
    { NoEntry,
      Entry(<<>>),                     \* ""
      Entry(<<LBrace, JunkTok>>),      \* "{not json"
      Entry(<<LBrace, RBrace>>),       \* "{}"
      Entry(<<NullTok>>) }             \* "null"
    \cup { Entry(Stringify(c)) : c \in StoredCarts }

(***************************************************************************)
(* Derived values, computed by every render (lines 88-89).                 *)
(***************************************************************************)
RECURSIVE SumUpToPrices(_, _)
SumUpToPrices(items, n) ==
    IF n = 0 THEN 0 ELSE SumUpToPrices(items, n - 1) + items[n].price

RECURSIVE ReduceTotal(_, _)
ReduceTotal(items, total) ==
    IF items = <<>> THEN total
    ELSE ReduceTotal(Tail(items), total + Head(items).price * Head(items).quantity)

RECURSIVE ReduceCount(_, _)
ReduceCount(items, count) ==
    IF items = <<>> THEN count
    ELSE ReduceCount(Tail(items), count + Head(items).quantity)

\* mutant: the total adds up the prices and forgets the quantities
CartTotalOfPrices(items) == SumUpToPrices(items, Len(items))

CartTotal(items) == ReduceTotal(items, 0)
ItemCount(items) == ReduceCount(items, 0)

(***************************************************************************)
(* The state updaters the mutation operations hand to setCartItems.        *)
(***************************************************************************)
\* prevItems.find(item => item.id === id) finds something
HasItem(items, id) == \E i \in 1..Len(items) : items[i].id = id

\* mutant: no lower limit on the quantity of an existing line
ExistingQuantityUnclamped(old, quantity) == old + quantity

\* mutant: the quantity of the call replaces the quantity of the line
ExistingQuantityReplaced(old, quantity) == Max(0, quantity)

\* the quantity an existing line gets from addToCart (line 56)
ExistingQuantity(old, quantity) == Max(0, old + quantity)

\* mutant: a new line takes the quantity of the call as it is
NewQuantityUnclamped(quantity) == quantity

\* the quantity a new line gets from addToCart (line 62)
NewQuantity(quantity) == Max(1, quantity)

\* mutant: addToCart appends a line without looking for an existing one
AddToCartAppends(prevItems, product, quantity) ==
    Append(prevItems,
           [id |-> product.id, price |-> product.price,
            quantity |-> Max(1, quantity)])

\* the updater of addToCart (lines 52-65)
AddToCartItems(prevItems, product, quantity) ==
    IF HasItem(prevItems, product.id)
    THEN [i \in 1..Len(prevItems) |->
            IF prevItems[i].id = product.id
            THEN [prevItems[i] EXCEPT
                    !.quantity = ExistingQuantity(prevItems[i].quantity, quantity)]
            ELSE prevItems[i]]
    ELSE Append(prevItems,
                [id |-> product.id, price |-> product.price,
                 quantity |-> NewQuantity(quantity)])

\* mutant: removeFromCart drops the line and every line after it
RemoveFromCartTruncates(prevItems, productId) ==
    IF \E i \in 1..Len(prevItems) : prevItems[i].id = productId
    THEN SubSeq(prevItems, 1,
                (CHOOSE i \in 1..Len(prevItems) : prevItems[i].id = productId) - 1)
    ELSE prevItems

\* the updater of removeFromCart (line 69)
RemoveFromCartItems(prevItems, productId) ==
    SelectSeq(prevItems, LAMBDA item : item.id # productId)

\* mutant: updateQuantity adds the quantity to the one of the line
SetQuantityAdds(prevItems, productId, quantity) ==
    [i \in 1..Len(prevItems) |->
        IF prevItems[i].id = productId
        THEN [prevItems[i] EXCEPT !.quantity = @ + quantity]
        ELSE prevItems[i]]

\* the updater of updateQuantity for quantity > 0 (lines 77-81)
SetQuantityItems(prevItems, productId, quantity) ==
    [i \in 1..Len(prevItems) |->
        IF prevItems[i].id = productId
        THEN [prevItems[i] EXCEPT !.quantity = quantity]
        ELSE prevItems[i]]

\* mutant: only a negative quantity removes the line
UpdateQuantityKeepsZero(prevItems, productId, quantity) ==
    IF quantity < 0
    THEN RemoveFromCartItems(prevItems, productId)
    ELSE SetQuantityItems(prevItems, productId, quantity)

\* updateQuantity as a whole (lines 72-82)
UpdateQuantityItems(prevItems, productId, quantity) ==
    IF quantity <= 0
    THEN RemoveFromCartItems(prevItems, productId)
    ELSE SetQuantityItems(prevItems, productId, quantity)

(***************************************************************************)
(* Initial state: the first render of CartProvider (lines 21-22), with     *)
(* both effects scheduled and localStorage as it was left.                 *)
(***************************************************************************)
\* no addToCart call recorded for any product
NoAdds == [id \in ProductIds |-> [n |-> 0, sum |-> 0, low |-> FALSE]]

Op(op, arg, q) == [op |-> op, arg |-> arg, q |-> q]

\* the second tab before it mounts: empty cart (line 21), not mounted (line 22)
TabNotOpen == [items |-> <<>>, mounted |-> FALSE, dirty |-> FALSE]

Init ==
    /\ cartItems = <<>>
    /\ hasMounted = FALSE
    /\ nextItems = <<>>
    /\ nextMounted = FALSE
    /\ pending = 0
    /\ mountPending = TRUE
    /\ savePending = TRUE
    /\ storage \in InitStorage
    /\ cartTotal = CartTotal(<<>>)
    /\ itemCount = ItemCount(<<>>)
    /\ lastOp = Op("init", "", 0)
    /\ adds = NoAdds
    /\ tab2 = TabNotOpen

(***************************************************************************)
(* The mutation operations.  Each queues one state update; none of them    *)
(* touches localStorage.                                                   *)
(***************************************************************************)
\* the mount flush has run the hydration effect and not yet the save effect
\* declared right after it: nothing else runs between the two
MidMountFlush == ~mountPending /\ savePending /\ ~hasMounted

CanMutate == pending < MaxPending /\ ~MidMountFlush

Queue(items, op) ==
    /\ nextItems' = items
    /\ pending' = pending + 1
    /\ lastOp' = op
    /\ UNCHANGED <<cartItems, hasMounted, nextMounted, mountPending, savePending,
                   storage, cartTotal, itemCount, adds, tab2>>

\* addToCart(product, quantity) (lines 51-66)
AddToCart(product, quantity) ==
    /\ CanMutate
    /\ \A i \in 1..Len(nextItems) :
          nextItems[i].id = product.id => nextItems[i].quantity + quantity <= MaxQty
    /\ Queue(AddToCartItems(nextItems, product, quantity),
             Op("addToCart", product.id, quantity))

\* removeFromCart(productId) (lines 68-70)
RemoveFromCart(productId) ==
    /\ CanMutate
    /\ Queue(RemoveFromCartItems(nextItems, productId),
             Op("removeFromCart", productId, 0))

\* updateQuantity(productId, quantity) (lines 72-82)
UpdateQuantity(productId, quantity) ==
    /\ CanMutate
    /\ quantity <= MaxQty
    /\ Queue(UpdateQuantityItems(nextItems, productId, quantity),
             Op("updateQuantity", productId, quantity))

\* clearCart() (lines 84-86)
ClearCart ==
    /\ CanMutate
    /\ Queue(<<>>, Op("clearCart", "", 0))

(***************************************************************************)
(* The effects and the render.                                             *)
(***************************************************************************)
\* what the hydration effect finds under the key
StoredKind(entry) ==
    IF ~entry.present THEN "absent"
    ELSE IF entry.text = <<>> THEN "empty"
    ELSE IF ~JSONParse(entry.text).ok THEN "unparsable"
    ELSE IF ~JSONParse(entry.text).isArray THEN "notArray"
    ELSE "array"

\* localData is truthy (line 28): getItem returned a non-empty string
Truthy(entry) == entry.present /\ entry.text # <<>>

\* mutant: the hydration effect never removes the entry
StorageKept(entry) == entry

\* the entry after the hydration effect (lines 27-41)
StorageAfterHydration(entry) ==
    IF Truthy(entry) /\ ~(JSONParse(entry.text).ok /\ JSONParse(entry.text).isArray)
    THEN NoEntry
    ELSE entry

\* mutant: the hydration effect takes the stored array only into an empty cart
HydratesEmptyCartOnly(entry) ==
    /\ Truthy(entry) /\ JSONParse(entry.text).ok /\ JSONParse(entry.text).isArray
    /\ nextItems = <<>>

\* the hydration effect calls setCartItems(parsedData) (line 32)
Hydrates(entry) ==
    Truthy(entry) /\ JSONParse(entry.text).ok /\ JSONParse(entry.text).isArray

\* the effect of lines 25-42, run once after the first render
MountEffect ==
    /\ mountPending
    /\ mountPending' = FALSE
    /\ nextMounted' = TRUE
    /\ storage' = StorageAfterHydration(storage)
    /\ IF Hydrates(storage)
       THEN /\ nextItems' = JSONParse(storage.text).items
            /\ pending' = pending + 1
       ELSE UNCHANGED <<nextItems, pending>>
    /\ lastOp' = Op("hydrate", StoredKind(storage), 0)
    /\ UNCHANGED <<cartItems, hasMounted, savePending, cartTotal, itemCount, adds, tab2>>

\* a state update is queued: React renders again
RenderNeeded == pending > 0 \/ nextMounted # hasMounted

\* the render of CartProvider: commits the queued updates, computes the
\* derived values (lines 88-89) and schedules the save effect, one of whose
\* dependencies [cartItems, hasMounted] has changed
Render ==
    /\ RenderNeeded
    /\ ~mountPending
    /\ ~savePending
    /\ cartItems' = nextItems
    /\ hasMounted' = nextMounted
    /\ pending' = 0
    /\ cartTotal' = CartTotal(nextItems)
    /\ itemCount' = ItemCount(nextItems)
    /\ savePending' = TRUE
    /\ lastOp' = Op("render", "", 0)
    /\ UNCHANGED <<nextItems, nextMounted, mountPending, storage, adds, tab2>>

\* mutant: the save effect writes without looking at hasMounted
StorageAlwaysSaved(entry, mounted, items) == Entry(Stringify(items))

\* mutant: the save effect skips the empty cart
StorageSavedUnlessEmpty(entry, mounted, items) ==
    IF mounted /\ items # <<>> THEN Entry(Stringify(items)) ELSE entry

\* mutant: the save effect merges the cart into the array already stored
StorageMerged(entry, mounted, items) ==
    IF ~mounted THEN entry
    ELSE IF entry.present /\ JSONParse(entry.text).isArray
         THEN Entry(Stringify(JSONParse(entry.text).items \o items))
         ELSE Entry(Stringify(items))

\* what the save effect leaves in storage (lines 46-48)
StorageAfterSave(entry, mounted, items) ==
    IF mounted THEN Entry(Stringify(items)) ELSE entry

\* the effect of lines 45-49, with the values of the render that scheduled it
SaveEffect ==
    /\ savePending
    /\ ~mountPending
    /\ savePending' = FALSE
    /\ storage' = StorageAfterSave(storage, hasMounted, cartItems)
    /\ lastOp' = Op("save", "", 0)
    /\ UNCHANGED <<cartItems, hasMounted, nextItems, nextMounted, pending,
                   mountPending, cartTotal, itemCount, adds, tab2>>

Next ==
    \/ \E p \in Products, q \in Quantities : AddToCart(p, q)
    \/ \E id \in ProductIds : RemoveFromCart(id)
    \/ \E id \in ProductIds, q \in Quantities : UpdateQuantity(id, q)
    \/ ClearCart
    \/ MountEffect
    \/ Render
    \/ SaveEffect

Spec == Init /\ [][Next]_vars

\* React runs the effects it has scheduled and renders again after a state
\* update has been queued
SpecLive ==
    Spec /\ WF_vars(MountEffect) /\ WF_vars(Render) /\ WF_vars(SaveEffect)

(***************************************************************************)
(* SpecAdds: the updater of addToCart applied call after call to a cart    *)
(* that starts empty, with the history of the calls made for each product: *)
(* n calls, the sum of their quantities with the first one raised to 1     *)
(* when it is smaller, and low = some call took the running sum below 0.   *)
(***************************************************************************)
AddCall(product, quantity) ==
    /\ adds[product.id].n < MaxAdds
    /\ \A i \in 1..Len(nextItems) :
          nextItems[i].id = product.id => nextItems[i].quantity + quantity <= MaxSum
    /\ nextItems' = AddToCartItems(nextItems, product, quantity)
    /\ adds' = [adds EXCEPT ![product.id] =
                  IF @.n = 0
                  THEN [n |-> 1,
                        sum |-> IF quantity < 1 THEN 1 ELSE quantity,
                        low |-> FALSE]
                  ELSE [n |-> @.n + 1,
                        sum |-> @.sum + quantity,
                        low |-> @.low \/ @.sum + quantity < 0]]
    /\ lastOp' = Op("addToCart", product.id, quantity)
    /\ UNCHANGED <<cartItems, hasMounted, nextMounted, pending, mountPending,
                   savePending, storage, cartTotal, itemCount, tab2>>

NextAdds == \E p \in Products, q \in AddQuantities : AddCall(p, q)

SpecAdds == Init /\ [][NextAdds]_vars

(***************************************************************************)
(* SpecTabs: a second tab runs the same CartProvider on the same           *)
(* localStorage entry.  Its handler, the render that follows and its mount *)
(* effect are taken as one step each; dirty = its save effect is scheduled.*)
(* The first tab adds with the default quantity and clears.                *)
(***************************************************************************)
\* the default of the quantity parameter of addToCart (line 51)
DefaultQuantity == 1

\* the second tab mounts: hydration effect (lines 25-42), then the render
\* with hasMounted true, which schedules the save effect
Tab2Mount ==
    /\ ~tab2.mounted
    /\ storage' = StorageAfterHydration(storage)
    /\ tab2' = [items |-> IF Hydrates(storage)
                          THEN JSONParse(storage.text).items
                          ELSE tab2.items,
                mounted |-> TRUE,
                dirty |-> TRUE]
    /\ lastOp' = Op("tab2mount", StoredKind(storage), 0)
    /\ UNCHANGED <<cartItems, hasMounted, nextItems, nextMounted, pending,
                   mountPending, savePending, cartTotal, itemCount, adds>>

\* addToCart(product) in the second tab (lines 51-66) and the render after it
Tab2Add(product) ==
    /\ tab2.mounted
    /\ \A i \in 1..Len(tab2.items) :
          tab2.items[i].id = product.id
             => tab2.items[i].quantity + DefaultQuantity <= MaxTabQty
    /\ tab2' = [tab2 EXCEPT
                  !.items = AddToCartItems(@, product, DefaultQuantity),
                  !.dirty = TRUE]
    /\ lastOp' = Op("tab2add", product.id, DefaultQuantity)
    /\ UNCHANGED <<cartItems, hasMounted, nextItems, nextMounted, pending,
                   mountPending, savePending, storage, cartTotal, itemCount, adds>>

\* the save effect of the second tab (lines 45-49)
Tab2Save ==
    /\ tab2.dirty
    /\ storage' = StorageAfterSave(storage, tab2.mounted, tab2.items)
    /\ tab2' = [tab2 EXCEPT !.dirty = FALSE]
    /\ lastOp' = Op("tab2save", "", 0)
    /\ UNCHANGED <<cartItems, hasMounted, nextItems, nextMounted, pending,
                   mountPending, savePending, cartTotal, itemCount, adds>>

NextTabs ==
    \/ \E p \in Products : AddToCart(p, DefaultQuantity)
    \/ ClearCart
    \/ MountEffect
    \/ Render
    \/ SaveEffect
    \/ Tab2Mount
    \/ \E p \in Products : Tab2Add(p)
    \/ Tab2Save

SpecTabs == Init /\ [][NextTabs]_vars

(***************************************************************************)
(* Properties.                                                             *)
(***************************************************************************)
Range(items) == { items[i] : i \in 1..Len(items) }

Lines(items, id) == { i \in 1..Len(items) : items[i].id = id }

NoDuplicateIds(items) ==
    \A i, j \in 1..Len(items) : items[i].id = items[j].id => i = j

MutationOps == {"addToCart", "removeFromCart", "updateQuantity", "clearCart"}

\* the step is a call of one of the four mutation operations
MutationStep == lastOp'.op \in MutationOps /\ pending' = pending + 1

\* the step is the hydration effect
MountStep == mountPending /\ ~mountPending'

\* C1: the cart holds at most one line item per product identifier, in the
\* committed state and with the queued updates applied, whatever sequence of
\* addToCart, removeFromCart, updateQuantity, clearCart and hydration from a
\* stored array without duplicate ids led there.
C1_OneLinePerProduct ==
    /\ NoDuplicateIds(cartItems)
    /\ NoDuplicateIds(nextItems)

\* addToCart has acted on a product the two-line cart already held
C1_Witness ==
    /\ lastOp.op = "addToCart"
    /\ HasItem(cartItems, lastOp.arg)
    /\ Len(cartItems) = 2
    /\ Len(nextItems) = 2
    /\ nextItems # cartItems

\* C2 as claimed: a mutation applied to a cart whose quantities are all
\* >= 1 leaves a cart whose quantities are all >= 1.
C2_QuantityAtLeastOne ==
    [][ (MutationStep /\ \A x \in Range(nextItems) : x.quantity >= 1)
          => \A x \in Range(nextItems') : x.quantity >= 1 ]_vars

\* C2 as amended: quantities are never negative; updateQuantity with a
\* quantity <= 0 removes the line, but addToCart with a negative quantity
\* that takes an existing line to 0 or below keeps the line with quantity 0,
\* and that is the only way a mutation produces a line with quantity < 1.
C2_QuantityNeverNegative ==
    [][ /\ \A x \in Range(nextItems') : x.quantity >= 0
        /\ MutationStep =>
             \A x \in Range(nextItems') :
                x.quantity < 1 =>
                   \/ x \in Range(nextItems)
                   \/ /\ lastOp'.op = "addToCart"
                      /\ lastOp'.arg = x.id
                      /\ lastOp'.q < 0
                      /\ HasItem(nextItems, x.id)
        /\ (MutationStep /\ lastOp'.op = "updateQuantity" /\ lastOp'.q <= 0)
             => ~HasItem(nextItems', lastOp'.arg) ]_vars

\* addToCart with a negative quantity has taken a line from >= 1 to 0
C2_Witness ==
    /\ lastOp.op = "addToCart"
    /\ lastOp.q < 0
    /\ \E x \in Range(cartItems) : x.id = lastOp.arg /\ x.quantity >= 1
    /\ \E x \in Range(nextItems) : x.id = lastOp.arg /\ x.quantity = 0

\* C3 as claimed: after addToCart calls for one product on a cart that did
\* not hold it, there is exactly one line for it and its quantity is the sum
\* of the quantities of the calls, the first one raised to 1 when smaller.
C3_QuantityIsSum ==
    \A id \in ProductIds :
        adds[id].n > 0 =>
            /\ Cardinality(Lines(nextItems, id)) = 1
            /\ \A i \in Lines(nextItems, id) : nextItems[i].quantity = adds[id].sum

\* C3 as amended: exactly one line; its quantity is that sum as long as no
\* call took the running sum below 0, and larger than the sum once a call
\* did (the line then stood at 0 instead).
C3_QuantityIsClampedSum ==
    \A id \in ProductIds :
        adds[id].n > 0 =>
            /\ Cardinality(Lines(nextItems, id)) = 1
            /\ \A i \in Lines(nextItems, id) :
                  /\ nextItems[i].quantity >= 0
                  /\ ~adds[id].low => nextItems[i].quantity = adds[id].sum
                  /\ adds[id].low => nextItems[i].quantity > adds[id].sum

\* addToCart(p1 at 10, 2) then addToCart(p1, 3): one line, quantity 5,
\* total 50, itemCount 5
C3_Witness ==
    /\ adds["p1"] = [n |-> 2, sum |-> 5, low |-> FALSE]
    /\ lastOp = Op("addToCart", "p1", 3)
    /\ nextItems = << [id |-> "p1", price |-> 10, quantity |-> 5] >>
    /\ CartTotal(nextItems) = 50
    /\ ItemCount(nextItems) = 5

\* the line of product id, when the cart holds exactly one
LineOf(items, id) == CHOOSE x \in Range(items) : x.id = id

\* items without its k-th element
Without(items, k) == SubSeq(items, 1, k - 1) \o SubSeq(items, k + 1, Len(items))

\* C4: updateQuantity(id, q) with q <= 0 leaves exactly the cart that
\* removeFromCart(id) leaves: the line of id is gone if there was one, the
\* other lines are untouched, and total and item count computed afterwards
\* no longer include it.
C4_NonPositiveQuantityRemoves ==
    [][ (MutationStep /\ lastOp'.op = "updateQuantity" /\ lastOp'.q <= 0) =>
          /\ nextItems' = RemoveFromCartItems(nextItems, lastOp'.arg)
          /\ ~HasItem(nextItems', lastOp'.arg)
          /\ \A x \in Range(nextItems) : x.id # lastOp'.arg => x \in Range(nextItems')
          /\ IF HasItem(nextItems, lastOp'.arg)
             THEN LET x == LineOf(nextItems, lastOp'.arg) IN
                  /\ Len(nextItems') = Len(nextItems) - 1
                  /\ CartTotal(nextItems') = CartTotal(nextItems) - x.price * x.quantity
                  /\ ItemCount(nextItems') = ItemCount(nextItems) - x.quantity
             ELSE nextItems' = nextItems ]_vars

\* add p1 x1, add p2 (price 5) x2, updateQuantity(p1, 0): only p2 remains,
\* total 10, itemCount 2
C4_Witness ==
    /\ lastOp = Op("updateQuantity", "p1", 0)
    /\ cartItems = << [id |-> "p1", price |-> 10, quantity |-> 1],
                      [id |-> "p2", price |-> 5, quantity |-> 2] >>
    /\ nextItems = << [id |-> "p2", price |-> 5, quantity |-> 2] >>
    /\ CartTotal(nextItems) = 10
    /\ ItemCount(nextItems) = 2

\* C5: updateQuantity(id, q) with q > 0 sets the quantity of the line of id
\* to exactly q, leaving its other fields, every other line and the order
\* as they were; when the cart has no line of id it is left as it was and
\* no line is inserted.
C5_PositiveQuantityIsSet ==
    [][ (MutationStep /\ lastOp'.op = "updateQuantity" /\ lastOp'.q > 0) =>
          /\ Len(nextItems') = Len(nextItems)
          /\ \A i \in 1..Len(nextItems) :
                IF nextItems[i].id = lastOp'.arg
                THEN nextItems'[i] = [id |-> nextItems[i].id,
                                      price |-> nextItems[i].price,
                                      quantity |-> lastOp'.q]
                ELSE nextItems'[i] = nextItems[i]
          /\ ~HasItem(nextItems, lastOp'.arg) => nextItems' = nextItems ]_vars

\* updateQuantity has changed the quantity of one line of a two-line cart
C5_Witness ==
    /\ lastOp.op = "updateQuantity"
    /\ lastOp.q > 0
    /\ Len(cartItems) = 2
    /\ Len(nextItems) = 2
    /\ \E i \in 1..2 :
          /\ cartItems[i].id = lastOp.arg
          /\ cartItems[i].quantity # lastOp.q
          /\ nextItems[i].quantity = lastOp.q

\* C6: removeFromCart(id) deletes the line of id and no other, keeping the
\* order of the rest; when the cart has no line of id, the items, and with
\* them total and item count, are unchanged.
C6_RemoveDeletesOnlyThatLine ==
    [][ (MutationStep /\ lastOp'.op = "removeFromCart") =>
          IF HasItem(nextItems, lastOp'.arg)
          THEN \E k \in 1..Len(nextItems) :
                  /\ nextItems[k].id = lastOp'.arg
                  /\ nextItems' = Without(nextItems, k)
          ELSE /\ nextItems' = nextItems
               /\ CartTotal(nextItems') = CartTotal(nextItems)
               /\ ItemCount(nextItems') = ItemCount(nextItems) ]_vars

\* removeFromCart has deleted the first line of a two-line cart
C6_Witness ==
    /\ lastOp.op = "removeFromCart"
    /\ Len(cartItems) = 2
    /\ cartItems[1].id = lastOp.arg
    /\ nextItems = <<cartItems[2]>>

\* sums over the first n lines of items, by position
RECURSIVE SumAmounts(_, _)
SumAmounts(items, n) ==
    IF n = 0 THEN 0
    ELSE SumAmounts(items, n - 1) + items[n].price * items[n].quantity

RECURSIVE SumQuantities(_, _)
SumQuantities(items, n) ==
    IF n = 0 THEN 0 ELSE SumQuantities(items, n - 1) + items[n].quantity

\* C7: the total and the item count a consumer reads are those of the line
\* items it reads them with: total is the sum of price * quantity over
\* cartItems and itemCount the sum of the quantities, both 0 for the empty
\* cart.
C7_DerivedValuesMatchItems ==
    /\ cartTotal = SumAmounts(cartItems, Len(cartItems))
    /\ itemCount = SumQuantities(cartItems, Len(cartItems))
    /\ cartItems = <<>> => cartTotal = 0 /\ itemCount = 0

\* a render has committed a cart of two lines with a total that is not 0
C7_Witness ==
    /\ lastOp.op = "render"
    /\ hasMounted
    /\ Len(cartItems) = 2
    /\ cartTotal > 0
    /\ itemCount > 1

\* the entry is there, is not the empty string, and is not the text of an array
Malformed(entry) ==
    /\ entry.present
    /\ entry.text # <<>>
    /\ ~(JSONParse(entry.text).ok /\ JSONParse(entry.text).isArray)

\* C8 as claimed: when the stored text does not parse or is not an array,
\* the hydration effect leaves the cart empty and deletes the entry; when
\* there is no entry the cart stays empty.
C8_MalformedEntryGivesEmptyCart ==
    [][ MountStep =>
          /\ (storage.present
                /\ ~(JSONParse(storage.text).ok /\ JSONParse(storage.text).isArray))
               => nextItems' = <<>> /\ storage' = NoEntry
          /\ ~storage.present => nextItems' = <<>> ]_vars

\* C8 as amended: the hydration effect always runs to its end; on an entry
\* that is not empty and does not parse or is not an array ("{not json",
\* "{}", "null") it deletes the entry and puts nothing in the cart; on no
\* entry or the empty string it touches neither storage nor the cart; the
\* cart is then as it was, which is empty unless a mutation came before the
\* mount effect.
C8_MalformedEntryIsDeleted ==
    [][ MountStep =>
          /\ ~mountPending' /\ nextMounted'
          /\ Malformed(storage) => nextItems' = nextItems /\ storage' = NoEntry
          /\ storage \in { Entry(<<LBrace, JunkTok>>), Entry(<<LBrace, RBrace>>),
                           Entry(<<NullTok>>) }
               => nextItems' = nextItems /\ storage' = NoEntry
          /\ (~storage.present \/ storage.text = <<>>)
               => nextItems' = nextItems /\ storage' = storage
          /\ (pending = 0 /\ (Malformed(storage) \/ ~storage.present
                                \/ storage.text = <<>>))
               => nextItems' = <<>> ]_vars

\* the hydration effect has found "{not json", deleted it and left the cart empty
C8_Witness ==
    /\ lastOp = Op("hydrate", "unparsable", 0)
    /\ ~mountPending
    /\ nextMounted
    /\ storage = NoEntry
    /\ nextItems = <<>>

\* C9 as claimed: as long as hasMounted is false the stored entry is the
\* one the application started with: no step that leaves hasMounted false
\* alters it.
C9_StorageUntouchedWhileNotMounted ==
    [][ ~hasMounted' => storage' = storage ]_vars

\* C9 as amended: a mutation never touches storage and nothing touches it
\* before the mount effect runs; the save effect writes only when hasMounted
\* is true, and what it writes is the committed cart; the only access made
\* while hasMounted is still false is the one of the mount effect itself,
\* which reads the entry and deletes it when it is malformed.
C9_OnlyMountEffectTouchesStorageBeforeMounted ==
    [][ /\ MutationStep => storage' = storage
        /\ mountPending' => storage' = storage
        /\ (storage' # storage /\ ~hasMounted)
             => MountStep /\ Malformed(storage) /\ storage' = NoEntry
        /\ (storage' # storage /\ ~MountStep)
             => hasMounted /\ storage' = Entry(Stringify(cartItems)) ]_vars

\* a mutation came before the mount effect, which then deleted a malformed
\* entry: the cart keeps the line and hasMounted is still false
C9_Witness ==
    /\ lastOp = Op("hydrate", "notArray", 0)
    /\ ~hasMounted
    /\ pending = 1
    /\ nextItems # <<>>
    /\ cartItems = <<>>
    /\ storage = NoEntry

\* C10: after mount every committed change of the state schedules the save
\* effect, which writes the whole cart: whenever hasMounted is true and no
\* save effect is pending, the stored text is the serialization of the
\* committed cart ("[]" when it is empty), and of the cart itself when no
\* update is queued; a mutation operation writes nothing by itself; and a
\* pending save effect does run.
C10_StorageFollowsState ==
    /\ [][ /\ MutationStep => storage' = storage /\ savePending' = savePending
           /\ (cartItems' # cartItems \/ hasMounted' # hasMounted) => savePending'
           /\ (hasMounted' /\ ~savePending')
                => storage' = Entry(Stringify(cartItems'))
           /\ (hasMounted' /\ ~savePending' /\ pending' = 0)
                => storage' = Entry(Stringify(nextItems')) ]_vars
    /\ (hasMounted /\ savePending)
          ~> (~savePending /\ storage = Entry(Stringify(cartItems)))
    /\ (pending > 0) ~> (pending = 0)

\* the save effect has written a cart of two lines after mount
C10_Witness ==
    /\ lastOp.op = "save"
    /\ hasMounted
    /\ pending = 0
    /\ Len(cartItems) = 2
    /\ storage = Entry(Stringify(cartItems))
    /\ storage.text # <<LBrack, RBrack>>

\* C11: the text the save effect writes for a cart hydrates a fresh store to
\* that cart: it is truthy, parses to an array, is not deleted, and the
\* parsed lines are the lines of the cart, in the same order, hence with the
\* same total and item count; this holds of the committed cart, of the cart
\* with the queued updates applied, and of the entry actually in storage
\* once the save effect has run.
C11_RoundTrip ==
    /\ \A c \in {cartItems, nextItems} :
          LET e == StorageAfterSave(NoEntry, TRUE, c) IN
          /\ Hydrates(e)
          /\ StorageAfterHydration(e) = e
          /\ JSONParse(e.text).items = c
          /\ Range(JSONParse(e.text).items) = Range(c)
          /\ CartTotal(JSONParse(e.text).items) = SumAmounts(c, Len(c))
          /\ ItemCount(JSONParse(e.text).items) = SumQuantities(c, Len(c))
    /\ (hasMounted /\ ~savePending) =>
          /\ Hydrates(storage)
          /\ JSONParse(storage.text).items = cartItems

\* the save effect has written a cart of two lines, one of them with
\* quantity 2, and the entry parses back to it
C11_Witness ==
    /\ lastOp.op = "save"
    /\ hasMounted
    /\ Len(cartItems) = 2
    /\ \E x \in Range(cartItems) : x.quantity = 2
    /\ Hydrates(storage)
    /\ JSONParse(storage.text).items = cartItems

\* the price of the product with this id
PriceOf(id) == (CHOOSE p \in Products : p.id = id).price

\* the step is a run of the save effect
SaveStep == savePending /\ ~savePending'

\* the entry holds the text of an array
WellFormedArray(entry) == entry.present /\ JSONParse(entry.text).isArray

\* a step of the second tab
Tab2Step == tab2' # tab2

\* ids of the lines of a cart
IdsOf(items) == {items[i].id : i \in 1..Len(items)}

\* C12: with two tabs on one storage key, no step of the other tab (its
\* mount, its mutations, its writes) changes a tab's in-memory cart, and
\* after a tab's own hydration only its own mutations change its cart; every
\* write to storage is exactly the text of the writing tab's whole cart,
\* whatever the other tab had stored (no merge), the only other change of
\* storage being a mount effect deleting a malformed or empty entry.
C12_TabsIsolatedLastWriterWins ==
    [][ /\ Tab2Step
           => /\ cartItems' = cartItems
              /\ nextItems' = nextItems
              /\ cartTotal' = cartTotal
              /\ itemCount' = itemCount
        /\ (~mountPending /\ nextItems' # nextItems) => MutationStep
        /\ cartItems' # cartItems => cartItems' = nextItems
        /\ ~Tab2Step => tab2' = tab2
        /\ (tab2.mounted /\ tab2'.items # tab2.items)
           => /\ lastOp'.op = "tab2add"
              /\ storage' = storage
        /\ (SaveStep /\ hasMounted) => storage' = Entry(Stringify(cartItems))
        /\ (tab2.mounted /\ tab2.dirty /\ ~tab2'.dirty)
           => storage' = Entry(Stringify(tab2.items))
        /\ storage' # storage
           => \/ SaveStep /\ hasMounted
              \/ tab2.mounted /\ tab2.dirty /\ ~tab2'.dirty
              \/ /\ MountStep \/ (~tab2.mounted /\ tab2'.mounted)
                 /\ ~WellFormedArray(storage)
                 /\ storage' = NoEntry
      ]_vars

\* the second tab wrote last: storage holds its cart only, the first tab's
\* line is gone from storage and still in the first tab's cart
C12_Witness ==
    /\ lastOp.op = "tab2save"
    /\ hasMounted
    /\ ~savePending
    /\ pending = 0
    /\ cartItems = << [id |-> "p1", price |-> 10, quantity |-> 1] >>
    /\ tab2.items = << [id |-> "p2", price |-> 5, quantity |-> 1] >>
    /\ storage = Entry(Stringify(tab2.items))
    /\ "p1" \notin IdsOf(JSONParse(storage.text).items)

\* C13: addToCart on a product the cart holds sets the quantity of its line
\* to max(0, old + quantity), keeping the line (also at 0), its other fields
\* and every other line; on a product the cart does not hold it appends a
\* line with quantity max(1, quantity).
C13_AddClampsAndKeeps ==
    [][ (MutationStep /\ lastOp'.op = "addToCart") =>
          IF HasItem(nextItems, lastOp'.arg)
          THEN /\ Len(nextItems') = Len(nextItems)
               /\ \A i \in 1..Len(nextItems) :
                     IF nextItems[i].id = lastOp'.arg
                     THEN /\ nextItems'[i].id = nextItems[i].id
                          /\ nextItems'[i].price = nextItems[i].price
                          /\ nextItems'[i].quantity >= 0
                          /\ nextItems'[i].quantity =
                                IF nextItems[i].quantity + lastOp'.q > 0
                                THEN nextItems[i].quantity + lastOp'.q
                                ELSE 0
                     ELSE nextItems'[i] = nextItems[i]
          ELSE nextItems' =
                  nextItems \o << [id |-> lastOp'.arg,
                                   price |-> PriceOf(lastOp'.arg),
                                   quantity |-> IF lastOp'.q > 1
                                                THEN lastOp'.q ELSE 1] >> ]_vars

\* addToCart with a negative quantity has left a line of a two-line cart
\* at quantity 0, in its place
C13_Witness ==
    /\ lastOp.op = "addToCart"
    /\ lastOp.q < 0
    /\ Len(cartItems) = 2
    /\ Len(nextItems) = 2
    /\ \E i \in 1..2 :
          /\ nextItems[i].id = lastOp.arg
          /\ cartItems[i].id = lastOp.arg
          /\ nextItems[i].quantity = 0

\* C14: a well-formed array found in storage at start is not overwritten by
\* the empty initial state: as long as hasMounted is false no step alters
\* it (the save effect of the first render writes nothing); the mount effect
\* queues exactly the stored lines; the render that makes hasMounted true
\* commits them with the mutations queued after them; and every write is
\* the text of the cart committed by such a render.
C14_StoredCartNotOverwritten ==
    [][ /\ (Hydrates(storage) /\ ~hasMounted) => storage' = storage
        /\ (SaveStep /\ ~hasMounted) => storage' = storage
        /\ (MountStep /\ Hydrates(storage))
             => nextItems' = JSONParse(storage.text).items
        /\ (~hasMounted /\ hasMounted')
             => ~mountPending /\ cartItems' = nextItems
        /\ (SaveStep /\ hasMounted)
             => storage' = Entry(Stringify(cartItems))
        /\ (~hasMounted /\ hasMounted' /\ pending = 1 /\ Hydrates(storage))
             => Entry(Stringify(cartItems')) = storage ]_vars

\* the first write after mount has put back the two stored lines, not "[]"
C14_Witness ==
    /\ lastOp.op = "save"
    /\ hasMounted
    /\ pending = 0
    /\ nextItems = cartItems
    /\ cartItems = << [id |-> "p2", price |-> 5, quantity |-> 1],
                      [id |-> "p1", price |-> 10, quantity |-> 2] >>
    /\ storage = Entry(Stringify(cartItems))

\* C15: the hydration effect runs once; when it finds a well-formed array
\* it replaces the queued cart by the stored lines, dropping what mutations
\* queued before it; when it finds anything else it keeps the cart as it
\* is; after it, only the mutation operations change the cart.
C15_HydratedOnceWholesale ==
    [][ /\ ~mountPending => ~mountPending'
        /\ (MountStep /\ WellFormedArray(storage))
             => nextItems' = JSONParse(storage.text).items
        /\ (MountStep /\ ~WellFormedArray(storage)) => nextItems' = nextItems
        /\ (~mountPending /\ nextItems' # nextItems) => MutationStep
        /\ cartItems' # cartItems => cartItems' = nextItems ]_vars

\* a mutation had queued a line before the mount effect, which found the
\* stored array and replaced the cart by it: the queued line is gone
C15_Witness ==
    /\ lastOp = Op("hydrate", "array", 0)
    /\ pending = 2
    /\ ~hasMounted
    /\ nextItems = << [id |-> "p1", price |-> 10, quantity |-> 0] >>
    /\ storage = Entry(Stringify(nextItems))

====
